---------------------------- MODULE Spec2Model ----------------------------
(***************************************************************************)
(* The SDECv2 command shell (src/cli.py): one cmd.Cmd object whose         *)
(* do_<command> handlers drive a single shared SerialObj, Parser and       *)
(* SensorSentry.  Each handler is one action; sensor_poll, whose body is a *)
(* loop over a lazy sequence of frames, is an action that starts the loop  *)
(* and one action per frame.  A command line is a sequence of tokens and a *)
(* token is a sequence of strings: single characters where int() and       *)
(* upper() work on them, the whole word for a flag or a path.              *)
(*                                                                         *)
(* The SDECv2 package (SerialObj, Status, SensorSentry, Parser) is         *)
(* imported by cli.py and is not part of the sources; its operations are   *)
(* modelled from the specification and are marked as such.                 *)
(***************************************************************************)
EXTENDS Integers, Sequences, FiniteSets, TLC

VARIABLES
    comport,        \* serial_connection.comport: the channel descriptor
    device_preset,  \* the preset held by the flight computer
    files,          \* the preset files on disk, by path
    stop,           \* TRUE once a handler returned the stop signal to cmdloop
    pollLeft,       \* frames the running sensor_poll loop will still print
    lastCmd,        \* the handler (or loop step) that ran last
    lastLine,       \* the params that handler received (connect, sensor_poll)
    out,            \* what it printed, one string per print()
    raised,         \* the exception that escaped it, or NoException
    calls,          \* the SDECv2 calls it issued
    pre,            \* comport as it was when the handler was entered
    init_args,      \* the arguments of its init_comport call, if it made one
    frame,          \* the readouts of the frame it printed (display commands)
    fresh,          \* the default download file holds the device's preset
    failedConnect   \* the last connect attempt failed to open

vars == << comport, device_preset, files, stop, pollLeft, lastCmd, lastLine,
           out, raised, calls, pre, init_args, frame, fresh, failedConnect >>

----------------------------------------------------------------------------
(* Bounds of the model. *)

\* longest timeout / count token, in characters
MaxTokLen == 2
\* most frames one sensor_poll loop prints in the model
MaxFrames == 2

----------------------------------------------------------------------------
(* Tokens and the conversions applied to them. *)

Digits == {"0", "1"}
Chars == Digits \cup {"-", "x"}

RECURSIVE SeqsUpTo(_, _)
SeqsUpTo(S, n) ==
    IF n = 0 THEN {<< >>}
    ELSE LET shorter == SeqsUpTo(S, n - 1)
         IN  shorter \cup {Append(s, c) : s \in {t \in shorter : Len(t) = n - 1}, c \in S}

\* the tokens a user may type where a number is expected
Tokens == SeqsUpTo(Chars, MaxTokLen) \ {<< >>}

DigitValue(c) == IF c = "1" THEN 1 ELSE 0

RECURSIVE Join(_)
Join(tok) == IF tok = << >> THEN "" ELSE Head(tok) \o Join(Tail(tok))

\* Python's int(str): an optional sign, then one or more decimal digits;
\* anything else raises ValueError.  (int() also takes surrounding blanks
\* and single underscores between digits; the tokens here have neither.)
IntBody(tok) == IF tok # << >> /\ Head(tok) \in {"-", "+"} THEN Tail(tok) ELSE tok

IsIntLiteral(tok) ==
    /\ IntBody(tok) # << >>
    /\ \A i \in DOMAIN IntBody(tok) : IntBody(tok)[i] \in Digits

RECURSIVE DigitsValue(_)
DigitsValue(ds) ==
    IF ds = << >> THEN 0
    ELSE 10 * DigitsValue(SubSeq(ds, 1, Len(ds) - 1)) + DigitValue(ds[Len(ds)])

IntValue(tok) ==
    IF tok # << >> /\ Head(tok) = "-" THEN 0 - DigitsValue(IntBody(tok))
    ELSE DigitsValue(IntBody(tok))

\* str.upper(), on the characters the port names of the model are made of
UpperChar(c) ==
    CASE c = "c" -> "C"
      [] c = "o" -> "O"
      [] c = "m" -> "M"
      [] OTHER   -> c

Upper(tok) == [i \in DOMAIN tok |-> UpperChar(tok[i])]

\* shlex.split(line) raises ValueError ("No closing quotation") on a line
\* with an unclosed quote, and yields the params otherwise.
UnclosedQuote == << "\"" >>
ShlexFails(line) == \E i \in DOMAIN line : line[i] = UnclosedQuote

----------------------------------------------------------------------------
(* The serial connection (SDECv2.SerialController). *)

NoException == "none"

OPEN == "OPEN"
CLOSED == "CLOSED"
ERROR == "ERROR"

\* SerialObj() before init_comport: there is no comport attribute
NoComport == [init |-> FALSE, name |-> << >>, status |-> "none"]

\* the port names a user types, and the ports the machine has
PortNames == { <<"C","O","M","3">>, <<"c","o","m","3">>, <<"C","O","M","9">> }
ExistingPorts == { <<"C","O","M","3">> }

\* SerialObj.init_comport(name, baudrate, timeout): a fresh descriptor.  Of
\* the descriptor the shell reads the name and the status; the baud rate and
\* the timeout it was given are kept in init_args.
init_comport(name, baudrate, timeout) ==
    [init |-> TRUE, name |-> name, status |-> CLOSED]

NoInitArgs == [called |-> FALSE, name |-> << >>, baudrate |-> 0, timeout |-> 0]
InitArgs(name, baudrate, timeout) ==
    [called |-> TRUE, name |-> name, baudrate |-> baudrate, timeout |-> timeout]

\* SerialObj.open_comport(): the outcomes the port allows.  A port that does
\* not exist cannot be opened; one that exists may still be claimed by
\* another process or fail its handshake.  A failed open leaves Closed.
OpenOutcomes(c) ==
    IF c.name \in ExistingPorts THEN {"ok", "false", "raise"} ELSE {"false", "raise"}

open_comport(c, outcome) ==
    IF outcome = "ok" THEN [c EXCEPT !.status = OPEN] ELSE c

\* SerialObj.close_comport(): closing a Closed (or Errored) channel is a
\* no-op success; closing an Open one may fault.  Without a comport the
\* attribute access raises AttributeError.
CloseOutcomes(c) ==
    IF ~c.init THEN {"attr"}
    ELSE IF c.status = OPEN THEN {"ok", "false", "raise"}
    ELSE {"ok"}

close_comport(c, outcome) ==
    IF outcome = "attr" THEN c
    ELSE IF outcome = "ok" THEN [c EXCEPT !.status = CLOSED]
    ELSE [c EXCEPT !.status = ERROR]


----------------------------------------------------------------------------
(* Sensors and their display (SDECv2.Sensor). *)

\* create_sensors.flight_computer_rev2_sensors(), in dump order
Sensors == << [name |-> "accX", unit |-> "m/s^2"],
              [name |-> "pres", unit |-> "kPa"],
              [name |-> "temp", unit |-> "C"] >>

\* A readout is None (the frame of that sensor timed out or did not decode)
\* or a number, kept in hundredths.
Absent == [present |-> FALSE, value |-> 0]
Reading(v) == [present |-> TRUE, value |-> v]
Readouts == {Absent, Reading(0), Reading(150)}

\* SensorSentry.dump(serial_connection): one readout per sensor, absent for
\* a sensor that failed; a failed sensor does not abort the dump.
Frames == [DOMAIN Sensors -> Readouts]

\* format(readout, ".2f")
Pad2(n) == IF n < 10 THEN "0" \o ToString(n) ELSE ToString(n)
Abs(n) == IF n < 0 THEN 0 - n ELSE n
Fmt2f(v) ==
    (IF v < 0 THEN "-" ELSE "") \o ToString(Abs(v) \div 100) \o "." \o Pad2(Abs(v) % 100)

\* bool(readout): None and 0 are false
Truthy(r) == r.present /\ r.value # 0

ValueLine(sensor, r) == sensor.name \o ": " \o Fmt2f(r.value) \o " " \o sensor.unit
ZeroLine(sensor) == sensor.name \o ": 0.0 " \o sensor.unit

\* the body of the print loop of sensor_dump and sensor_poll
SensorLine(sensor, r) == IF Truthy(r) THEN ValueLine(sensor, r) ELSE ZeroLine(sensor)

\* the body of the print loop of dashboard_dump
DashboardLine(sensor, r) == IF r.present THEN ValueLine(sensor, r) ELSE ZeroLine(sensor)

\* the print loop of do_sensor_dump leaving at the first absent readout
RECURSIVE LinesUntilAbsent(_, _)
LinesUntilAbsent(f, i) ==
    IF i > Len(Sensors) \/ ~f[i].present THEN << >>
    ELSE << SensorLine(Sensors[i], f[i]) >> \o LinesUntilAbsent(f, i + 1)
DumpLinesUntilAbsent(f) == LinesUntilAbsent(f, 1)

\* for sensor, readout in sensor_dump.items(): print(...)
DumpLines(f) == [i \in DOMAIN Sensors |-> SensorLine(Sensors[i], f[i])]
DashboardLines(f) == [i \in DOMAIN Sensors |-> DashboardLine(Sensors[i], f[i])]

NoFrame == [i \in DOMAIN Sensors |-> Absent]

----------------------------------------------------------------------------
(* Presets and preset files (SDECv2.Parser). *)

Fields == {"mode", "rate"}
FieldValues == {0, 1}
Presets == [Fields -> FieldValues]

DefaultUploadPath == "SDECv2/a_input/to_upload_preset.json"
\* do_download_preset defaulting to another file than verify_preset reads
OtherDownloadPath == "SDECv2/a_output/preset.json"
DefaultDownloadPath == "SDECv2/a_output/downloaded_preset.json"
\* the file verify_preset loads its reference from
VerifyPath == "SDECv2/a_output/downloaded_preset.json"

Paths == {DefaultUploadPath, DefaultDownloadPath}
\* The files under a_output are the shell's own and are kept in `files`; a
\* file under a_input is the user's, and what it holds when it is read is an
\* input.
OutputPaths == {VerifyPath}

NoFile == [exists |-> FALSE, preset |-> [f \in Fields |-> 0]]
FileOf(p) == [exists |-> TRUE, preset |-> p]
Files == {NoFile} \cup {FileOf(p) : p \in Presets}

\* open(path) for reading: what the file may hold
ReadFile(path) == IF path \in DOMAIN files THEN {files[path]} ELSE Files
\* the files after a preset was written to path
WriteFile(path, p) ==
    IF path \in DOMAIN files THEN [files EXCEPT ![path] = FileOf(p)] ELSE files

\* Parser.verify_preset(serial_connection): the device's preset, downloaded
\* again, is field-wise equal to the parser's own
verify_preset(reference, device) == \A f \in Fields : reference[f] = device[f]

\* a partial upload: the fields of S were committed before a later one failed
PartialUpload(old, new, S) == [f \in Fields |-> IF f \in S THEN new[f] ELSE old[f]]

----------------------------------------------------------------------------
(* The messages of the shell. *)

NoSerialMsg == "Error: No serial connection"
TimeoutMsg == "Timeout must be a positive integer (seconds)"
PollUsageMsg == "Usage: sensor_poll <--timeout> <time> | <--count> <count>"
OpenedMsg(name) == "Successfully opened serial connection on port " \o Join(name)
OpenFailedMsg(name) == "Failed to open serial connection on port " \o Join(name)
OpenRaisedMsg(name) == OpenFailedMsg(name) \o ": could not open port"
ClosedMsg(c) == "Successfully closed serial connection on port " \o Join(c.name)
CloseFailedMsg(c) == "Failed to close serial connection on port " \o Join(c.name)
CloseRaisedMsg == "Failed to close serial connection: write failed"
NoComportMsg == "No initialized comport"


----------------------------------------------------------------------------
(* The command loop. *)

\* cmdloop() reads the next command once the previous handler has returned;
\* a handler that returns True ends the loop, and an exception that escapes
\* a handler escapes cmdloop() and ends the program.
Returned == ~stop /\ raised = NoException /\ pollLeft = 0

\* the shell is at its prompt: the next line typed is dispatched to a handler
Idle == Returned /\ lastCmd = "none"

\* what the handler that just ran was given and did
Ran(cmd, line, printed, exc, issued) ==
    /\ lastCmd' = cmd
    /\ lastLine' = line
    /\ out' = printed
    /\ raised' = exc
    /\ calls' = issued
    /\ pre' = comport

\* lines for the commands that take no argument
Stray == << "x" >>
PlainLines == { << >>, << Stray >>, << UnclosedQuote >> }

\* `if self.serial_connection.comport.status is not Status.OPEN:` reads the
\* comport attribute (AttributeError without one) and compares its status
GuardOutcome(c) ==
    IF ~c.init THEN "AttributeError"
    ELSE IF c.status # OPEN THEN "reject"
    ELSE "pass"

\* the first statement of every device command:
\*     print("Error: No serial connection"); return
Refused(cmd, line) ==
    /\ GuardOutcome(comport) # "pass"
    /\ IF GuardOutcome(comport) = "reject"
       THEN Ran(cmd, line, << NoSerialMsg >>, NoException, {})
       ELSE Ran(cmd, line, << >>, GuardOutcome(comport), {})
    /\ UNCHANGED << comport, device_preset, files, stop, pollLeft, frame, fresh,
                    failedConnect, init_args >>

\* shlex.split(line) raised, or the handler printed its usage and returned
Escaped(cmd, line, exc) ==
    /\ Ran(cmd, line, << >>, exc, {})
    /\ UNCHANGED << comport, device_preset, files, stop, pollLeft, frame, fresh,
                    failedConnect, init_args >>

Usage(cmd, line, msg) ==
    /\ Ran(cmd, line, << msg >>, NoException, {})
    /\ UNCHANGED << comport, device_preset, files, stop, pollLeft, frame, fresh,
                    failedConnect, init_args >>

\* an I/O fault on the open channel: the session goes to Error and the
\* exception escapes the handler
Fault(cmd, call) ==
    /\ comport' = [comport EXCEPT !.status = ERROR]
    /\ Ran(cmd, << >>, << >>, "SerialException", {call})
    /\ UNCHANGED << device_preset, files, stop, frame, fresh, failedConnect,
                    init_args >>

----------------------------------------------------------------------------
(* sensor_dump *)

do_sensor_dump ==
    \E line \in PlainLines :
        /\ Idle
        /\ \/ Refused("sensor_dump", << >>)
           \/ /\ GuardOutcome(comport) = "pass"
              /\ ShlexFails(line)
              /\ Escaped("sensor_dump", << >>, "ValueError")
           \/ /\ GuardOutcome(comport) = "pass"
              /\ ~ShlexFails(line)
              /\ Len(line) # 0
              /\ Usage("sensor_dump", << >>, "Usage: sensor_dump")
           \/ /\ GuardOutcome(comport) = "pass"
              /\ ~ShlexFails(line)
              /\ Len(line) = 0
              /\ \/ \E f \in Frames :
                        /\ frame' = f
                        /\ Ran("sensor_dump", << >>, DumpLines(f), NoException, {"dump"})
                        /\ UNCHANGED << comport, device_preset, files, stop, pollLeft,
                                        fresh, failedConnect, init_args >>
                 \/ Fault("sensor_dump", "dump") /\ UNCHANGED pollLeft

----------------------------------------------------------------------------
(* dashboard_dump *)

do_dashboard_dump ==
    \E line \in PlainLines :
        /\ Idle
        /\ \/ Refused("dashboard_dump", << >>)
           \/ /\ GuardOutcome(comport) = "pass"
              /\ ShlexFails(line)
              /\ Escaped("dashboard_dump", << >>, "ValueError")
           \/ /\ GuardOutcome(comport) = "pass"
              /\ ~ShlexFails(line)
              /\ Len(line) # 0
              /\ Usage("dashboard_dump", << >>, "Usage: dashboard_dump")
           \/ /\ GuardOutcome(comport) = "pass"
              /\ ~ShlexFails(line)
              /\ Len(line) = 0
              /\ \/ \E f \in Frames :
                        /\ frame' = f
                        /\ Ran("dashboard_dump", << >>, DashboardLines(f), NoException,
                               {"dashboard_dump"})
                        /\ UNCHANGED << comport, device_preset, files, stop, pollLeft,
                                        fresh, failedConnect, init_args >>
                 \/ Fault("dashboard_dump", "dashboard_dump") /\ UNCHANGED pollLeft


----------------------------------------------------------------------------
(* sensor_poll *)

OptCount == << "-", "-", "c", "o", "u", "n", "t" >>
OptTimeout == << "-", "-", "t", "i", "m", "e", "o", "u", "t" >>
PollOpts == {OptCount, OptTimeout}

\* the lines tried: none, one or two options, with and without values
PollInputs ==
    { << >>, << UnclosedQuote >> }
        \cup { << o >> : o \in PollOpts }
        \cup { << v >> : v \in SeqsUpTo(Chars, 1) \ {<< >>} }
        \cup { << o, v >> : o \in PollOpts, v \in Tokens }
        \cup { << o1, v1, o2, v2 >> : o1 \in PollOpts, o2 \in PollOpts,
                                       v1 \in SeqsUpTo(Digits, 1) \ {<< >>},
                                       v2 \in SeqsUpTo(Digits, 1) \ {<< >>} }

NoArgs == [ok |-> TRUE, hasCount |-> FALSE, count |-> 0,
           hasTimeout |-> FALSE, timeout |-> 0]
ArgsError == [NoArgs EXCEPT !.ok = FALSE]

\* arg_parser.parse_args(params) for the parser of do_sensor_poll: two
\* options with type=int in one mutually exclusive group.  An option needs
\* one value that int() accepts; an option of the group after the other one
\* is an error; any other token is an unrecognized argument.  (The loop of
\* ArgumentParser._parse_known_args; SystemExit is ok = FALSE.)
RECURSIVE ParseOptions(_, _)
ParseOptions(toks, acc) ==
    IF toks = << >> THEN acc
    ELSE IF Head(toks) \notin PollOpts THEN ArgsError
    ELSE IF Len(toks) < 2 \/ ~IsIntLiteral(toks[2]) THEN ArgsError
    ELSE IF Head(toks) = OptCount
         THEN IF acc.hasTimeout THEN ArgsError
              ELSE ParseOptions(SubSeq(toks, 3, Len(toks)),
                                [acc EXCEPT !.hasCount = TRUE, !.count = IntValue(toks[2])])
         ELSE IF acc.hasCount THEN ArgsError
              ELSE ParseOptions(SubSeq(toks, 3, Len(toks)),
                                [acc EXCEPT !.hasTimeout = TRUE, !.timeout = IntValue(toks[2])])

\* the group without required=True
ParsePollArgsNotRequired(params) == ParseOptions(params, NoArgs)

\* add_mutually_exclusive_group(required=True): one of the two is required
ParsePollArgs(params) ==
    LET args == ParseOptions(params, NoArgs)
    IN  IF args.ok /\ ~args.hasCount /\ ~args.hasTimeout THEN ArgsError ELSE args

\* how the handler calls the poller: `if args.count is not None` first
PollCall(args) == IF args.hasCount THEN "poll(count)" ELSE "poll(timeout)"

\* SensorSentry.poll: count frames, or as many as fit before the deadline
PollLengths(args) ==
    IF args.hasCount THEN {IF args.count < 0 THEN 0 ELSE args.count}
    ELSE 0 .. MaxFrames

\* the print loop of do_sensor_poll, for one frame of the sequence
PollFrameLines(f) == [i \in DOMAIN Sensors |-> SensorLine(Sensors[i], f[i])]

do_sensor_poll ==
    \E line \in PollInputs :
        /\ Idle
        /\ \/ Refused("sensor_poll", line)
           \/ /\ GuardOutcome(comport) = "pass"
              /\ ShlexFails(line)
              /\ Escaped("sensor_poll", line, "ValueError")
           \/ /\ GuardOutcome(comport) = "pass"
              /\ ~ShlexFails(line)
              /\ ~ParsePollArgs(line).ok
              /\ Usage("sensor_poll", line, PollUsageMsg)
           \/ /\ GuardOutcome(comport) = "pass"
              /\ ~ShlexFails(line)
              /\ ParsePollArgs(line).ok
              /\ \E n \in PollLengths(ParsePollArgs(line)) :
                    /\ n <= MaxFrames
                    /\ pollLeft' = n
              /\ Ran("sensor_poll", line, << >>, NoException,
                     {PollCall(ParsePollArgs(line))})
              /\ UNCHANGED << comport, device_preset, files, stop, frame, fresh,
                              failedConnect, init_args >>

\* one iteration of `for sensor_poll in self.sensor_sentry.poll(...)`
PollFrame ==
    /\ ~stop
    /\ raised = NoException
    /\ pollLeft > 0
    /\ \/ \E f \in Frames :
             /\ frame' = f
             /\ pollLeft' = pollLeft - 1
             /\ Ran("sensor_poll_frame", << >>, PollFrameLines(f), NoException, {"poll"})
             /\ UNCHANGED << comport, device_preset, files, stop, fresh, failedConnect,
                             init_args >>
       \/ /\ Fault("sensor_poll_frame", "poll")
          /\ pollLeft' = 0


----------------------------------------------------------------------------
(* flash_extract *)

StorePreset == << "--store-preset" >>
StoreData == << "--store-data" >>
FlashInputs == { << >>, << StorePreset >>, << StoreData >>, << StorePreset, StoreData >>,
                 << Stray >>, << UnclosedQuote >> }

\* parse_args for two store_true flags: any other token is an error
ParseFlashArgs(params) ==
    [ok |-> \A i \in DOMAIN params : params[i] \in {StorePreset, StoreData},
     store_preset |-> \E i \in DOMAIN params : params[i] = StorePreset,
     store_data |-> \E i \in DOMAIN params : params[i] = StoreData]

\* The files flash_extract may store are its own; the preset files of
\* upload_preset, download_preset and verify_preset are not among them.
do_flash_extract ==
    \E line \in FlashInputs :
        /\ Idle
        /\ \/ Refused("flash_extract", << >>)
           \/ /\ GuardOutcome(comport) = "pass"
              /\ ShlexFails(line)
              /\ Escaped("flash_extract", << >>, "ValueError")
           \/ /\ GuardOutcome(comport) = "pass"
              /\ ~ShlexFails(line)
              /\ ~ParseFlashArgs(line).ok
              /\ Usage("flash_extract", << >>,
                       "Usage: flash_extract [--store-preset] [--store-data]")
           \/ /\ GuardOutcome(comport) = "pass"
              /\ ~ShlexFails(line)
              /\ ParseFlashArgs(line).ok
              /\ \/ /\ Ran("flash_extract", << >>, << >>, NoException, {"flash_extract"})
                    /\ UNCHANGED << comport, device_preset, files, stop, pollLeft, frame,
                                    fresh, failedConnect, init_args >>
                 \/ Fault("flash_extract", "flash_extract") /\ UNCHANGED pollLeft

----------------------------------------------------------------------------
(* upload_preset, download_preset, verify_preset *)

\* a path is one token
PathToken(path) == << path >>
PathInputs ==
    { << >>, << UnclosedQuote >> }
        \cup { << PathToken(p) >> : p \in Paths }
        \cup { << PathToken(p), Stray >> : p \in Paths }

\* `if len(params) == 1: path = params[0]  elif len(params) == 0: path = <default>`
UploadPath(params) == IF Len(params) = 1 THEN Join(params[1]) ELSE DefaultUploadPath
DownloadPath(params) == IF Len(params) = 1 THEN Join(params[1]) ELSE DefaultDownloadPath

do_upload_preset ==
    \E line \in PathInputs :
        /\ Idle
        /\ \/ Refused("upload_preset", << >>)
           \/ /\ GuardOutcome(comport) = "pass"
              /\ ShlexFails(line)
              /\ Escaped("upload_preset", << >>, "ValueError")
           \/ /\ GuardOutcome(comport) = "pass"
              /\ ~ShlexFails(line)
              /\ Len(line) > 1
              /\ Usage("upload_preset", << >>, "Usage: upload_preset [path]")
           \/ /\ GuardOutcome(comport) = "pass"
              /\ ~ShlexFails(line)
              /\ Len(line) <= 1
              /\ \E file \in ReadFile(UploadPath(line)) :
                    \/ /\ ~file.exists
                       /\ Ran("upload_preset", line, << >>, "FileNotFoundError", {})
                       /\ UNCHANGED << comport, device_preset, files, stop, pollLeft,
                                       frame, fresh, failedConnect, init_args >>
                    \/ /\ file.exists
                       /\ device_preset' = file.preset
                       /\ fresh' = (fresh /\ device_preset' = device_preset)
                       /\ Ran("upload_preset", line, << >>, NoException,
                              {"upload_preset"})
                       /\ UNCHANGED << comport, files, stop, pollLeft, frame,
                                       failedConnect, init_args >>
                    \/ /\ file.exists
                       /\ \E S \in (SUBSET Fields) \ {Fields} :
                             device_preset' = PartialUpload(device_preset, file.preset, S)
                       /\ fresh' = (fresh /\ device_preset' = device_preset)
                       /\ Ran("upload_preset", line, << >>, "TransferError",
                              {"upload_preset"})
                       /\ UNCHANGED << comport, files, stop, pollLeft, frame,
                                       failedConnect, init_args >>
                    \/ /\ file.exists
                       /\ Fault("upload_preset", "upload_preset")
                       /\ UNCHANGED pollLeft

do_download_preset ==
    \E line \in PathInputs :
        /\ Idle
        /\ \/ Refused("download_preset", << >>)
           \/ /\ GuardOutcome(comport) = "pass"
              /\ ShlexFails(line)
              /\ Escaped("download_preset", << >>, "ValueError")
           \/ /\ GuardOutcome(comport) = "pass"
              /\ ~ShlexFails(line)
              /\ Len(line) > 1
              /\ Usage("download_preset", << >>, "Usage: download_preset [path]")
           \/ /\ GuardOutcome(comport) = "pass"
              /\ ~ShlexFails(line)
              /\ Len(line) <= 1
              /\ \/ /\ files' = WriteFile(DownloadPath(line), device_preset)
                    /\ fresh' = IF DownloadPath(line) = VerifyPath THEN TRUE ELSE fresh
                    /\ Ran("download_preset", line, << >>, NoException, {"download_preset"})
                    /\ UNCHANGED << comport, device_preset, stop, pollLeft, frame,
                                    failedConnect, init_args >>
                 \/ /\ Ran("download_preset", line, << >>, "TransferError",
                           {"download_preset"})
                    /\ UNCHANGED << comport, device_preset, files, stop, pollLeft, frame,
                                    fresh, failedConnect, init_args >>
                 \/ Fault("download_preset", "download_preset") /\ UNCHANGED pollLeft

\* print(f"{"Valid Preset" if verify_result else "Invalid Preset"}")
VerifyMsg(verify_result) == IF verify_result THEN "Valid Preset" ELSE "Invalid Preset"

do_verify_preset ==
    \E line \in PlainLines :
        /\ Idle
        /\ \/ Refused("verify_preset", << >>)
           \/ /\ GuardOutcome(comport) = "pass"
              /\ ShlexFails(line)
              /\ Escaped("verify_preset", << >>, "ValueError")
           \/ /\ GuardOutcome(comport) = "pass"
              /\ ~ShlexFails(line)
              /\ Len(line) # 0
              /\ Usage("verify_preset", << >>, "Usage: verify_preset")
           \/ /\ GuardOutcome(comport) = "pass"
              /\ ~ShlexFails(line)
              /\ Len(line) = 0
              /\ \/ /\ ~files[VerifyPath].exists
                    /\ Escaped("verify_preset", << >>, "FileNotFoundError")
                 \/ /\ files[VerifyPath].exists
                    /\ Ran("verify_preset", << >>,
                           << VerifyMsg(verify_preset(files[VerifyPath].preset,
                                                      device_preset)) >>,
                           NoException, {"from_file", "verify_preset"})
                    /\ UNCHANGED << comport, device_preset, files, stop, pollLeft, frame,
                                    fresh, failedConnect, init_args >>
                 \/ /\ files[VerifyPath].exists
                    /\ Ran("verify_preset", << >>, << >>, "TransferError",
                           {"from_file", "verify_preset"})
                    /\ UNCHANGED << comport, device_preset, files, stop, pollLeft, frame,
                                    fresh, failedConnect, init_args >>
                 \/ /\ files[VerifyPath].exists
                    /\ Fault("verify_preset", "verify_preset")
                    /\ UNCHANGED pollLeft


----------------------------------------------------------------------------
(* list_comports *)

do_list_comports ==
    \E line \in PlainLines :
        /\ Idle
        /\ \/ /\ ShlexFails(line)
              /\ Escaped("list_comports", << >>, "ValueError")
           \/ /\ ~ShlexFails(line)
              /\ Len(line) # 0
              /\ Usage("list_comports", << >>, "Usage: list_comports")
           \/ /\ ~ShlexFails(line)
              /\ Len(line) = 0
              /\ Ran("list_comports", << >>,
                     << "Available ports:", "  " \o Join(CHOOSE n \in ExistingPorts : TRUE) >>,
                     NoException, {"available_comports"})
              /\ UNCHANGED << comport, device_preset, files, stop, pollLeft, frame, fresh,
                              failedConnect, init_args >>

----------------------------------------------------------------------------
(* connect *)

Baudrate == 921600
DefaultTimeout == 1

ConnectInputs ==
    { << >>, << UnclosedQuote >> }
        \cup { << n >> : n \in PortNames }
        \cup { << n, t >> : n \in PortNames, t \in Tokens }
        \cup { << n, t, Stray >> : n \in PortNames, t \in SeqsUpTo(Chars, 1) \ {<< >>} }

\* do_connect with `if timeout < 0` for `if timeout <= 0`
ParseConnectZeroAllowed(params) ==
    IF Len(params) = 1
    THEN [kind |-> "ok", name |-> params[1], timeout |-> 1]
    ELSE IF Len(params) = 2
    THEN IF IsIntLiteral(params[2]) /\ IntValue(params[2]) >= 0
         THEN [kind |-> "ok", name |-> params[1], timeout |-> IntValue(params[2])]
         ELSE [kind |-> "timeout", name |-> << >>, timeout |-> 0]
    ELSE [kind |-> "usage", name |-> << >>, timeout |-> 0]

\* the parameter handling of do_connect: "ok" with the name and the timeout,
\* "timeout" for a timeout that is not a positive integer, "usage" otherwise
ParseConnect(params) ==
    IF Len(params) = 1
    THEN [kind |-> "ok", name |-> params[1], timeout |-> DefaultTimeout]
    ELSE IF Len(params) = 2
    THEN IF IsIntLiteral(params[2]) /\ IntValue(params[2]) > 0
         THEN [kind |-> "ok", name |-> params[1], timeout |-> IntValue(params[2])]
         ELSE [kind |-> "timeout", name |-> << >>, timeout |-> 0]
    ELSE [kind |-> "usage", name |-> << >>, timeout |-> 0]

\* do_connect without the `except Exception` clause
ConnectReportUncaught(name, outcome) ==
    CASE outcome = "ok"    -> [printed |-> << OpenedMsg(name) >>, exc |-> NoException]
      [] outcome = "false" -> [printed |-> << OpenFailedMsg(name) >>, exc |-> NoException]
      [] OTHER             -> [printed |-> << >>, exc |-> "SerialException"]

\* the try/except around open_comport(): what is printed and what escapes
ConnectReport(name, outcome) ==
    CASE outcome = "ok"    -> [printed |-> << OpenedMsg(name) >>, exc |-> NoException]
      [] outcome = "false" -> [printed |-> << OpenFailedMsg(name) >>, exc |-> NoException]
      [] OTHER             -> [printed |-> << OpenRaisedMsg(name) >>, exc |-> NoException]

do_connect ==
    \E line \in ConnectInputs :
        /\ Idle
        /\ \/ /\ ShlexFails(line)
              /\ Escaped("connect", line, "ValueError")
           \/ /\ ~ShlexFails(line)
              /\ ParseConnect(line).kind = "timeout"
              /\ Usage("connect", line, TimeoutMsg)
           \/ /\ ~ShlexFails(line)
              /\ ParseConnect(line).kind = "usage"
              /\ Usage("connect", line, "Usage: connect <name> [timeout]")
           \/ /\ ~ShlexFails(line)
              /\ ParseConnect(line).kind = "ok"
              /\ LET args == ParseConnect(line)
                     fresh_comport == init_comport(Upper(args.name), Baudrate, args.timeout)
                 IN  \E outcome \in OpenOutcomes(fresh_comport) :
                        /\ comport' = open_comport(fresh_comport, outcome)
                        /\ failedConnect' = (outcome # "ok")
                        /\ init_args' = InitArgs(Upper(args.name), Baudrate, args.timeout)
                        /\ Ran("connect", line, ConnectReport(args.name, outcome).printed,
                               ConnectReport(args.name, outcome).exc,
                               {"init_comport", "open_comport"})
              /\ UNCHANGED << device_preset, files, stop, pollLeft, frame, fresh >>

----------------------------------------------------------------------------
(* disconnect *)

\* do_disconnect with `if not self.serial_connection.close_comport()`
DisconnectReportNegated(c, outcome) ==
    CASE outcome = "ok"    -> [printed |-> << CloseFailedMsg(c) >>, exc |-> NoException]
      [] outcome = "false" -> [printed |-> << ClosedMsg(c) >>, exc |-> NoException]
      [] OTHER             -> [printed |-> << CloseRaisedMsg >>, exc |-> NoException]

\* the try/except around close_comport(); the name is read after the close
DisconnectReport(c, outcome) ==
    CASE outcome = "ok"    -> [printed |-> << ClosedMsg(c) >>, exc |-> NoException]
      [] outcome = "false" -> [printed |-> << CloseFailedMsg(c) >>, exc |-> NoException]
      [] OTHER             -> [printed |-> << CloseRaisedMsg >>, exc |-> NoException]

do_disconnect ==
    \E line \in PlainLines :
        /\ Idle
        /\ \/ /\ ShlexFails(line)
              /\ Escaped("disconnect", line, "ValueError")
           \/ /\ ~ShlexFails(line)
              /\ Len(line) # 0
              /\ Usage("disconnect", line, "Usage: disconnect")
           \/ /\ ~ShlexFails(line)
              /\ Len(line) = 0
              /\ ~comport.init
              /\ Usage("disconnect", line, NoComportMsg)
           \/ /\ ~ShlexFails(line)
              /\ Len(line) = 0
              /\ comport.init
              /\ \E outcome \in CloseOutcomes(comport) :
                    /\ comport' = close_comport(comport, outcome)
                    /\ Ran("disconnect", line,
                           DisconnectReport(close_comport(comport, outcome), outcome).printed,
                           DisconnectReport(close_comport(comport, outcome), outcome).exc,
                           {"close_comport"})
              /\ UNCHANGED << device_preset, files, stop, pollLeft, frame, fresh,
                              failedConnect, init_args >>

----------------------------------------------------------------------------
(* quit, q *)

\* do_quit with `except SerialException:` for the bare `except:`
QuitResultSerialOnly(outcome) ==
    IF outcome = "attr" THEN [stop |-> FALSE, exc |-> "AttributeError"]
    ELSE [stop |-> TRUE, exc |-> NoException]

\* try: close_comport()  except: pass;  return True
QuitResult(outcome) == [stop |-> TRUE, exc |-> NoException]

do_quit(cmd) ==
    /\ Idle
    /\ \E outcome \in CloseOutcomes(comport) :
          /\ comport' = close_comport(comport, outcome)
          /\ stop' = QuitResult(outcome).stop
          /\ Ran(cmd, << >>, << >>, QuitResult(outcome).exc, {"close_comport"})
    /\ UNCHANGED << device_preset, files, pollLeft, frame, fresh, failedConnect,
                    init_args >>

Quit == do_quit("quit")

\* return self.do_quit(line)
do_q == do_quit("q")

----------------------------------------------------------------------------
(* The shell. *)

\* the class attributes of Cli, and the machine it is started on
Init ==
    /\ comport = NoComport
    /\ device_preset \in Presets
    /\ files \in [OutputPaths -> Files]
    /\ stop = FALSE
    /\ pollLeft = 0
    /\ lastCmd = "none"
    /\ lastLine = << >>
    /\ out = << >>
    /\ raised = NoException
    /\ calls = {}
    /\ pre = NoComport
    /\ init_args = NoInitArgs
    /\ frame = NoFrame
    /\ fresh = FALSE
    /\ failedConnect = FALSE

\* cmdloop(): the handler returned without the stop signal, the shell goes
\* back to `>> `.  What is recorded about the handler is dropped here.
Prompt ==
    /\ Returned
    /\ lastCmd # "none"
    /\ lastCmd' = "none"
    /\ lastLine' = << >>
    /\ out' = << >>
    /\ calls' = {}
    /\ pre' = NoComport
    /\ frame' = NoFrame
    /\ init_args' = NoInitArgs
    /\ UNCHANGED << comport, device_preset, files, stop, pollLeft, raised, fresh,
                    failedConnect >>

Next ==
    \/ Prompt
    \/ do_sensor_dump
    \/ do_sensor_poll
    \/ PollFrame
    \/ do_flash_extract
    \/ do_upload_preset
    \/ do_download_preset
    \/ do_verify_preset
    \/ do_dashboard_dump
    \/ do_list_comports
    \/ do_connect
    \/ do_disconnect
    \/ Quit
    \/ do_q

Spec == Init /\ [][Next]_vars


----------------------------------------------------------------------------
(* Properties. *)

DeviceCmds == {"sensor_dump", "sensor_poll", "flash_extract", "upload_preset",
               "download_preset", "verify_preset", "dashboard_dump"}

\* the SDECv2 calls that read or write the channel
IOCalls == {"dump", "poll", "poll(count)", "poll(timeout)", "flash_extract",
            "upload_preset", "download_preset", "verify_preset", "dashboard_dump"}

NoIO == calls \cap IOCalls = {}

\* a session that is not Open: no channel yet, Closed, or Errored
NotOpen(c) == c.status # OPEN

\* Closed as the specification counts it: at construction, after a failed
\* open and after a close
SessionClosed(c) == ~c.init \/ c.status = CLOSED

Supplied(opt, line) == \E i \in DOMAIN line : line[i] = opt
OneOfCountTimeout(line) == Supplied(OptCount, line) # Supplied(OptTimeout, line)

\* C1: whenever a device command ran on a session that was not Open, it
\* printed "Error: No serial connection", nothing escaped it, and it made no
\* call that reads or writes the channel.
C1_RefusedWhenNotOpen ==
    (lastCmd \in DeviceCmds /\ NotOpen(pre))
        => (out = << NoSerialMsg >> /\ raised = NoException /\ NoIO)

\* C2: init_comport and open_comport are called only with a timeout that is
\* a positive integer; a connect whose timeout argument is zero, negative or
\* not an integer prints the timeout message, makes no call and leaves the
\* channel as it was; a connect without a timeout argument uses 1.
C2_ConnectTimeoutPositive ==
    /\ init_args.called => init_args.timeout > 0
    /\ ("init_comport" \in calls \/ "open_comport" \in calls) => init_args.called
    /\ (lastCmd = "connect" /\ Len(lastLine) = 2
            /\ (~IsIntLiteral(lastLine[2]) \/ IntValue(lastLine[2]) <= 0))
        => (out = << TimeoutMsg >> /\ calls = {} /\ ~init_args.called /\ comport = pre
              /\ raised = NoException)
    /\ (lastCmd = "connect" /\ Len(lastLine) = 1 /\ init_args.called)
        => init_args.timeout = 1

\* a connect with the timeout "-1" was turned down on an Open session
C2_Witness ==
    /\ lastCmd = "connect"
    /\ Len(lastLine) = 2
    /\ lastLine[2] = << "-", "1" >>
    /\ out = << TimeoutMsg >>
    /\ comport.status = OPEN

C4_FailedConnectLeavesClosed ==
    /\ (lastCmd = "connect" /\ init_args.called /\ init_args.name \notin ExistingPorts)
        => /\ comport.status = CLOSED
           /\ raised = NoException
           /\ out \in { << OpenFailedMsg(lastLine[1]) >>, << OpenRaisedMsg(lastLine[1]) >> }
           /\ failedConnect
    /\ (lastCmd \in DeviceCmds /\ failedConnect)
        => (out = << NoSerialMsg >> /\ raised = NoException /\ NoIO)

\* a device command was refused after a failed connect to COM9
C4_Witness ==
    /\ lastCmd = "sensor_dump"
    /\ failedConnect
    /\ comport.name \notin ExistingPorts
    /\ comport.status = CLOSED
    /\ out = << NoSerialMsg >>

\* C5 as stated: a disconnect on a session that is already Closed (the
\* shell's own at construction included) reports success and leaves Closed.
C5_CloseClosedReportsSuccess ==
    (lastCmd = "disconnect" /\ lastLine = << >> /\ SessionClosed(pre))
        => (out = << ClosedMsg(comport) >> /\ comport.status = CLOSED
              /\ raised = NoException)

\* C5 amended: a disconnect on a channel that was initialised and is Closed
\* reports success and changes nothing; a disconnect before any connect
\* prints "No initialized comport", calls nothing and changes nothing.
C5_CloseClosedIsNoOp ==
    /\ (lastCmd = "disconnect" /\ lastLine = << >> /\ pre.init /\ pre.status = CLOSED)
        => (out = << ClosedMsg(pre) >> /\ comport = pre /\ raised = NoException)
    /\ (lastCmd = "disconnect" /\ lastLine = << >> /\ ~pre.init)
        => (out = << NoComportMsg >> /\ comport = pre /\ calls = {}
              /\ raised = NoException)

\* a disconnect of a Closed channel was reported as a success
C5_Witness ==
    /\ lastCmd = "disconnect"
    /\ lastLine = << >>
    /\ pre.init
    /\ pre.status = CLOSED
    /\ out = << ClosedMsg(pre) >>

\* C6: init_comport and open_comport are never called while the status is
\* Open.
C6_NoReopenWhileOpen ==
    ("init_comport" \in calls \/ "open_comport" \in calls) => pre.status # OPEN

\* verify_preset came to its report
Verified ==
    /\ lastCmd = "verify_preset"
    /\ "verify_preset" \in calls
    /\ raised = NoException

Differing(p, q) == {f \in Fields : p[f] # q[f]}

\* C7: when verify_preset reports, it reports "Valid Preset" exactly when
\* the device's preset equals the one in the downloaded-preset file and
\* "Invalid Preset" otherwise, also when one field alone differs; a
\* download_preset without a path leaves that file equal to the device's
\* preset, and as long as neither changed since, the report is "Valid
\* Preset".
C7_VerifyIffEqual ==
    /\ Verified =>
          /\ files[VerifyPath].exists
          /\ out = << "Valid Preset" >> <=> device_preset = files[VerifyPath].preset
          /\ out = << "Invalid Preset" >> <=> device_preset # files[VerifyPath].preset
          /\ Cardinality(Differing(device_preset, files[VerifyPath].preset)) = 1
                => out = << "Invalid Preset" >>
    /\ (lastCmd = "download_preset" /\ lastLine = << >> /\ "download_preset" \in calls
            /\ raised = NoException)
          => (fresh /\ files[VerifyPath] = FileOf(device_preset))
    /\ (Verified /\ fresh) => out = << "Valid Preset" >>

\* verify_preset reported "Valid Preset" on a freshly downloaded file
C7_Witness == Verified /\ fresh /\ out = << "Valid Preset" >>

\* a display command printed a frame
Displayed ==
    /\ lastCmd \in {"sensor_dump", "sensor_poll_frame", "dashboard_dump"}
    /\ calls # {}
    /\ raised = NoException

\* C8: in every frame a display command prints, the line of a sensor whose
\* readout is absent and the line of a sensor whose readout is zero are the
\* same text, "<name>: 0.0 <unit>".
C8_AbsentAndZeroSameText ==
    Displayed =>
        \A i \in DOMAIN Sensors :
            frame[i] \in {Absent, Reading(0)} => out[i] = ZeroLine(Sensors[i])

\* C9: a sensor_dump prints one line per sensor, in the dump's order, with
\* the value of every sensor that has one, whichever readouts are absent.
C9_DumpPrintsEverySensor ==
    (lastCmd = "sensor_dump" /\ "dump" \in calls /\ raised = NoException) =>
        /\ Len(out) = Len(Sensors)
        /\ \A i \in DOMAIN Sensors :
              /\ Truthy(frame[i]) => out[i] = ValueLine(Sensors[i], frame[i])
              /\ ~frame[i].present => out[i] = ZeroLine(Sensors[i])

\* the second sensor was absent and the two others were printed
C9_Witness ==
    /\ lastCmd = "sensor_dump"
    /\ frame = << Reading(150), Absent, Reading(150) >>
    /\ out = << "accX: 1.50 m/s^2", "pres: 0.0 kPa", "temp: 1.50 C" >>

\* C10: quit and q can be given at every prompt, and once either ran the
\* stop signal was returned and nothing escaped, after an attempt to close.
C10_QuitAlwaysStops ==
    /\ Idle => (ENABLED Quit /\ ENABLED do_q)
    /\ lastCmd \in {"quit", "q"}
          => (stop /\ raised = NoException /\ "close_comport" \in calls)

\* quit stopped a shell that never had a channel
C10_Witness == lastCmd = "quit" /\ ~pre.init /\ stop

=============================================================================
